---- MODULE Spec2Model ----
(***************************************************************************)
(* Model of the CataCuti backend (src/app.py): the /api/login endpoint     *)
(* (signup and login), the streaks table and the two implementations of    *)
(* the daily streak update, update_streak (SQLAlchemy) and                 *)
(* update_streak_sqlite (sqlite3 fallback).                                *)
(***************************************************************************)
EXTENDS Integers, FiniteSets, Sequences, TLC

\* ------------------------------------------------------------------------
\* Bounds of the model
\* ------------------------------------------------------------------------
\* calendar days are 1..MaxDay
MaxDay == 4
\* a login that would push current_streak above MaxStreak is not taken
MaxStreak == 2

\* ------------------------------------------------------------------------
\* Values
\* ------------------------------------------------------------------------
\* Python's None / "no row" (fetchone() and .first() return None)
None == [id |-> 0]

Days == 1..MaxDay
TimesOfDay == {"08:00:00", "20:00:00"}
\* a datetime value, as returned by datetime.utcnow()
Datetimes == [date : Days, time : TimesOfDay]

\* datetime.date()
date(dt) == dt.date

\* datetime.isoformat(): the text "<date>T<time>", kept as its parts
isoformat(dt) == <<dt.date, "T", dt.time>>

\* SQLite's CURRENT_TIMESTAMP: the text "<date> <time>"
CURRENT_TIMESTAMP(dt) == <<dt.date, " ", dt.time>>

\* datetime.fromisoformat(text.replace('Z', '+00:00')): accepts both
\* separators; no stored text carries a 'Z'
fromisoformat(text) == [date |-> text[1], time |-> text[3]]

Max(a, b) == IF a >= b THEN a ELSE b

\* generate_password_hash / check_password_hash
generate_password_hash(password) == [pbkdf2 |-> password]
check_password_hash(pwhash, password) == pwhash = generate_password_hash(password)

\* the e-mails and passwords the modelled clients send; nobody sends the
\* seeded student's e-mail, so that account stays without activity
Emails == {"", "admin@catacuti.com", "new@catacuti.com"}
Passwords == {"admin123", "student123"}
\* the password the modelled clients sign up with
SignupPasswords == {"student123"}

\* the rows the start-up code inserts into the users table
SeedUsers ==
    { [id |-> 1, email |-> "admin@catacuti.com",
       password |-> generate_password_hash("admin123")],
      [id |-> 2, email |-> "student@catacuti.com",
       password |-> generate_password_hash("student123")] }

\* ------------------------------------------------------------------------
\* State
\* ------------------------------------------------------------------------
VARIABLES
    SQLALCHEMY_AVAILABLE,   \* which backend the process runs with
    users,                  \* rows of table users
    streaks,                \* rows of table streaks
    response,               \* the response of the last /api/login request
    call,                   \* what the last request read: the user, the
                            \* value of utcnow() and the user's streak row
                            \* before the request
    pc,                     \* concurrent requests: where each one stands
    req,                    \* concurrent requests: user, fetched row, utcnow()
    base,                   \* table streaks when the first of them started
    peak,                   \* per user_id, the largest current_streak its
                            \* row has held so far
    active,                 \* per user_id, the days of its signup and logins
    progress                \* rows of table progress

vars == <<SQLALCHEMY_AVAILABLE, users, streaks, response, call, pc, req, base,
          peak, active, progress>>

\* the request threads of the server that the concurrent model runs
Procs == {1, 2}

\* AUTOINCREMENT / serial primary key of a table without deletes
NextId(rows) == Cardinality(rows) + 1

\* create_response(...)
create_response(status, message) ==
    [status |-> status, success |-> status = 200, message |-> message]

NoCall == [op |-> "none", user_id |-> 0, today |-> None, before |-> None]

\* SELECT ... WHERE email = ? / User.query.filter_by(email=email).first()
SelectUser(rows, email) ==
    IF \E u \in rows : u.email = email
    THEN CHOOSE u \in rows : u.email = email /\ \A v \in rows : v.email = email => u.id <= v.id
    ELSE None

\* SELECT * FROM streaks WHERE user_id = ? / Streak.query.filter_by(...).first()
SelectStreak(rows, user_id) ==
    IF \E r \in rows : r.user_id = user_id
    THEN CHOOSE r \in rows : r.user_id = user_id /\ \A q \in rows : q.user_id = user_id => r.id <= q.id
    ELSE None

\* ------------------------------------------------------------------------
\* update_streak_sqlite (sqlite3 backend)
\* ------------------------------------------------------------------------
\* variant: longest_streak is not raised to the new current_streak
sqlite_new_values_no_max(streak, today) ==
    LET last_activity == fromisoformat(streak.last_activity)
        days_diff == date(today) - date(last_activity)
        new_streak == IF days_diff = 1 THEN streak.current_streak + 1
                      ELSE IF days_diff > 1 THEN 1
                      ELSE streak.current_streak
    IN  [current_streak |-> new_streak,
         longest_streak |-> streak.longest_streak,
         last_activity |-> isoformat(today)]

\* variant: a second update on the same day counts as a further day
sqlite_new_values_same_day(streak, today) ==
    LET last_activity == fromisoformat(streak.last_activity)
        days_diff == date(today) - date(last_activity)
        new_streak == IF days_diff = 0 \/ days_diff = 1
                      THEN streak.current_streak + 1
                      ELSE IF days_diff > 1 THEN 1
                      ELSE streak.current_streak
        longest_streak == Max(new_streak, streak.longest_streak)
    IN  [current_streak |-> new_streak,
         longest_streak |-> longest_streak,
         last_activity |-> isoformat(today)]

\* variant: days_diff counts elapsed 24-hour periods, (today - last).days,
\* instead of the difference of the calendar dates
sqlite_new_values_elapsed(streak, today) ==
    LET last_activity == fromisoformat(streak.last_activity)
        days_diff == date(today) - date(last_activity)
                     - (IF today.time = "08:00:00" /\ last_activity.time = "20:00:00"
                        THEN 1 ELSE 0)
        new_streak == IF days_diff = 1 THEN streak.current_streak + 1
                      ELSE IF days_diff > 1 THEN 1
                      ELSE streak.current_streak
        longest_streak == Max(new_streak, streak.longest_streak)
    IN  [current_streak |-> new_streak,
         longest_streak |-> longest_streak,
         last_activity |-> isoformat(today)]

\* variant: every date other than the same or the next day resets
sqlite_new_values_any_gap(streak, today) ==
    LET last_activity == fromisoformat(streak.last_activity)
        days_diff == date(today) - date(last_activity)
        new_streak == IF days_diff = 1 THEN streak.current_streak + 1
                      ELSE IF days_diff # 0 THEN 1
                      ELSE streak.current_streak
        longest_streak == Max(new_streak, streak.longest_streak)
    IN  [current_streak |-> new_streak,
         longest_streak |-> longest_streak,
         last_activity |-> isoformat(today)]

\* the values computed from the fetched row: new_streak, longest_streak and
\* the text written to last_activity
sqlite_new_values(streak, today) ==
    LET last_activity == fromisoformat(streak.last_activity)
        days_diff == date(today) - date(last_activity)
        new_streak == IF days_diff = 1 THEN streak.current_streak + 1
                      ELSE IF days_diff > 1 THEN 1
                      ELSE streak.current_streak
        longest_streak == Max(new_streak, streak.longest_streak)
    IN  [current_streak |-> new_streak,
         longest_streak |-> longest_streak,
         last_activity |-> isoformat(today)]

\* variant: table streaks has no UNIQUE constraint on user_id
sqlite_write_no_unique(rows, streak, user_id, today) ==
    IF streak # None
    THEN LET v == sqlite_new_values(streak, today)
         IN  { IF r.user_id = user_id
               THEN [r EXCEPT !.current_streak = v.current_streak,
                              !.longest_streak = v.longest_streak,
                              !.last_activity = v.last_activity]
               ELSE r : r \in rows }
    ELSE rows \cup { [id |-> NextId(rows), user_id |-> user_id,
                      current_streak |-> 1, longest_streak |-> 1,
                      last_activity |-> isoformat(today)] }

\* the UPDATE or INSERT and the commit, given the row fetched before; an
\* INSERT that violates UNIQUE(user_id) raises and the except clause
\* swallows it
sqlite_write(rows, streak, user_id, today) ==
    IF streak # None
    THEN LET v == sqlite_new_values(streak, today)
         IN  { IF r.user_id = user_id
               THEN [r EXCEPT !.current_streak = v.current_streak,
                              !.longest_streak = v.longest_streak,
                              !.last_activity = v.last_activity]
               ELSE r : r \in rows }
    ELSE IF \E r \in rows : r.user_id = user_id
         THEN rows
         ELSE rows \cup { [id |-> NextId(rows), user_id |-> user_id,
                           current_streak |-> 1, longest_streak |-> 1,
                           last_activity |-> isoformat(today)] }

update_streak_sqlite(rows, user_id, today) ==
    sqlite_write(rows, SelectStreak(rows, user_id), user_id, today)

\* ------------------------------------------------------------------------
\* update_streak (SQLAlchemy backend)
\* ------------------------------------------------------------------------
\* a Streak object loaded from a row: every attribute is set
AsObject(row) == [attrs |-> row, unset |-> {}]

\* Streak(user_id=user_id): a new object; the column defaults are applied
\* by the INSERT, until then the attributes read as None
Streak(user_id) ==
    [attrs |-> [id |-> 0, user_id |-> user_id, current_streak |-> 0,
                longest_streak |-> 0, last_activity |-> None],
     unset |-> {"id", "current_streak", "longest_streak", "last_activity"}]

\* variant: longest_streak is assigned current_streak on every update
streak_body_longest_follows(obj, today) ==
    LET a == obj.attrs
        has_last == "last_activity" \notin obj.unset
        days_diff == date(today) - date(a.last_activity)
        cur_none == "current_streak" \in obj.unset
        raise_add == has_last /\ days_diff = 1 /\ cur_none
        current_streak == IF has_last
                          THEN IF days_diff = 1 THEN a.current_streak + 1
                               ELSE IF days_diff > 1 THEN 1
                               ELSE a.current_streak
                          ELSE 1
        raise_cmp == \/ has_last /\ days_diff < 1 /\ cur_none
                     \/ "longest_streak" \in obj.unset
    IN  IF raise_add \/ raise_cmp
        THEN [raised |-> TRUE, attrs |-> a]
        ELSE [raised |-> FALSE,
              attrs |-> [a EXCEPT !.current_streak = current_streak,
                                  !.longest_streak = current_streak,
                                  !.last_activity = today]]

\* the body of update_streak between the query and the commit; raised is
\* the TypeError of arithmetic or comparison with None
streak_body(obj, today) ==
    LET a == obj.attrs
        has_last == "last_activity" \notin obj.unset
        days_diff == date(today) - date(a.last_activity)
        cur_none == "current_streak" \in obj.unset
        raise_add == has_last /\ days_diff = 1 /\ cur_none
        current_streak == IF has_last
                          THEN IF days_diff = 1 THEN a.current_streak + 1
                               ELSE IF days_diff > 1 THEN 1
                               ELSE a.current_streak
                          ELSE 1
        raise_cmp == \/ has_last /\ days_diff < 1 /\ cur_none
                     \/ "longest_streak" \in obj.unset
        longest_streak == IF current_streak > a.longest_streak
                          THEN current_streak
                          ELSE a.longest_streak
    IN  IF raise_add \/ raise_cmp
        THEN [raised |-> TRUE, attrs |-> a]
        ELSE [raised |-> FALSE,
              attrs |-> [a EXCEPT !.current_streak = current_streak,
                                  !.longest_streak = longest_streak,
                                  !.last_activity = today]]

\* INSERT of a new Streak object: primary key and column defaults
\* (current_streak 0, longest_streak 0, last_activity utcnow()); a second
\* row for the same user_id violates the unique constraint
insert_streak(rows, obj, now) ==
    IF \E r \in rows : r.user_id = obj.attrs.user_id
    THEN rows
    ELSE rows \cup
         { [id |-> NextId(rows),
            user_id |-> obj.attrs.user_id,
            current_streak |-> IF "current_streak" \in obj.unset THEN 0
                               ELSE obj.attrs.current_streak,
            longest_streak |-> IF "longest_streak" \in obj.unset THEN 0
                               ELSE obj.attrs.longest_streak,
            last_activity |-> IF "last_activity" \in obj.unset THEN now
                              ELSE obj.attrs.last_activity] }

\* db.session.commit() of a loaded object: an UPDATE by primary key of the
\* attributes whose value differs from the loaded one
commit_streak(rows, loaded, attrs) ==
    { IF r.id = loaded.id
      THEN [r EXCEPT
              !.current_streak = IF attrs.current_streak # loaded.current_streak
                                 THEN attrs.current_streak ELSE @,
              !.longest_streak = IF attrs.longest_streak # loaded.longest_streak
                                 THEN attrs.longest_streak ELSE @,
              !.last_activity = IF attrs.last_activity # loaded.last_activity
                                THEN attrs.last_activity ELSE @]
      ELSE r : r \in rows }

\* the commit of update_streak given the object queried before; an
\* exception is caught and the session rolled back
alchemy_write(rows, streak, user_id, today) ==
    LET obj == IF streak = None THEN Streak(user_id) ELSE AsObject(streak)
        res == streak_body(obj, today)
    IN  IF res.raised THEN rows
        ELSE IF streak = None
             THEN insert_streak(rows, [obj EXCEPT !.attrs = res.attrs,
                                                  !.unset = {"id"}], today)
             ELSE commit_streak(rows, streak, res.attrs)

update_streak(rows, user_id, today) ==
    alchemy_write(rows, SelectStreak(rows, user_id), user_id, today)

\* ------------------------------------------------------------------------
\* /api/login
\* ------------------------------------------------------------------------
\* the calendar date of a streak row's last_activity
RowDate(r) == IF SQLALCHEMY_AVAILABLE THEN date(r.last_activity)
              ELSE date(fromisoformat(r.last_activity))

\* the streak row both signup branches insert: only user_id is given, the
\* table defaults fill the rest
signup_streak(rows, user_id, now) ==
    IF SQLALCHEMY_AVAILABLE
    THEN insert_streak(rows, Streak(user_id), now)
    ELSE IF \E r \in rows : r.user_id = user_id
         THEN rows
         ELSE rows \cup { [id |-> NextId(rows), user_id |-> user_id,
                           current_streak |-> 0, longest_streak |-> 0,
                           last_activity |-> CURRENT_TIMESTAMP(now)] }

\* login() with is_signup = True; now is the clock when the rows are stored
Signup(email, password, now) ==
    /\ IF email = "" \/ password = ""
       THEN /\ response' = create_response(400, "Email and password are required")
            /\ call' = [NoCall EXCEPT !.op = "signup"]
            /\ UNCHANGED <<users, streaks>>
       ELSE IF SelectUser(users, email) # None
       THEN /\ response' = create_response(400, "User already exists")
            /\ call' = [NoCall EXCEPT !.op = "signup"]
            /\ UNCHANGED <<users, streaks>>
       ELSE LET user_id == NextId(users)
            IN  /\ users' = users \cup
                       { [id |-> user_id, email |-> email,
                          password |-> generate_password_hash(password)] }
                /\ streaks' = signup_streak(streaks, user_id, now)
                /\ response' = create_response(200, "Registration successful")
                /\ call' = [op |-> "signup", user_id |-> user_id,
                            today |-> now,
                            before |-> SelectStreak(streaks, user_id)]
    /\ UNCHANGED <<SQLALCHEMY_AVAILABLE, pc, req, base>>

\* login() with is_signup = False; now is what utcnow() returns inside the
\* streak update
Login(email, password, now) ==
    LET user == SelectUser(users, email)
    IN  /\ IF email = "" \/ password = ""
           THEN /\ response' = create_response(400, "Email and password are required")
                /\ call' = [NoCall EXCEPT !.op = "login"]
                /\ UNCHANGED streaks
           ELSE IF user = None \/ ~check_password_hash(user.password, password)
           THEN /\ response' = create_response(401, "Invalid credentials")
                /\ call' = [NoCall EXCEPT !.op = "login"]
                /\ UNCHANGED streaks
           ELSE /\ streaks' = IF SQLALCHEMY_AVAILABLE
                              THEN update_streak(streaks, user.id, now)
                              ELSE update_streak_sqlite(streaks, user.id, now)
                /\ \A r \in streaks' : r.current_streak <= MaxStreak
                /\ response' = create_response(200, "Login successful")
                /\ call' = [op |-> "login", user_id |-> user.id,
                            today |-> now,
                            before |-> SelectStreak(streaks, user.id)]
        /\ UNCHANGED <<SQLALCHEMY_AVAILABLE, users, pc, req, base>>

\* ------------------------------------------------------------------------
\* Persistence failures and the read endpoint
\* ------------------------------------------------------------------------
\* the statement of a streak update that raises: the SELECT, the UPDATE or
\* INSERT, or the commit
Faults == {"query", "write", "commit"}

\* variant: every statement is committed as it is executed
transaction_autocommit(committed, pending, commit_ok) == pending

\* what a table holds when a connection or session ends: its pending
\* writes if the commit went through; otherwise rollback() (SQLAlchemy) or
\* the drop of the uncommitted sqlite3 connection discards them
transaction(committed, pending, commit_ok) ==
    IF commit_ok THEN pending ELSE committed

\* table streaks after a streak update in which the statement fault raises
failed_update(rows, user_id, today, fault) ==
    LET pending == IF fault = "commit"
                   THEN IF SQLALCHEMY_AVAILABLE
                        THEN update_streak(rows, user_id, today)
                        ELSE update_streak_sqlite(rows, user_id, today)
                   ELSE rows
    IN  transaction(rows, pending, FALSE)

\* variant: the except clause re-raises
update_propagates_reraise(fault) == TRUE

\* whether an exception inside the streak update reaches login(): the
\* except clauses of update_streak and update_streak_sqlite end without
\* raising
update_propagates(fault) == FALSE

\* the response of login() after the streak update: its own except clause
\* answers 500
login_response(propagated) ==
    IF propagated THEN create_response(500, "error")
    ELSE create_response(200, "Login successful")

\* login() with valid credentials whose streak update fails at fault
LoginFault(email, password, now, fault) ==
    LET user == SelectUser(users, email)
    IN  /\ email # "" /\ password # ""
        /\ user # None
        /\ check_password_hash(user.password, password)
        /\ streaks' = failed_update(streaks, user.id, now, fault)
        /\ response' = login_response(update_propagates(fault))
        /\ call' = [op |-> "login_fault", user_id |-> user.id,
                    today |-> None,
                    before |-> SelectStreak(streaks, user.id),
                    fault |-> fault]
        /\ UNCHANGED <<SQLALCHEMY_AVAILABLE, users, pc, req, base>>

\* the store of a signup that raises: "user" while the users row is
\* stored, "streak" while the streaks row is stored
SignupFaults == {"user", "streak"}

\* login() with is_signup = True in which a statement raises. SQLAlchemy
\* commits the users row before it adds the streaks row; sqlite3 commits
\* both rows at once
SignupFault(email, password, now, fault) ==
    LET user_id == NextId(users)
        new_user == [id |-> user_id, email |-> email,
                     password |-> generate_password_hash(password)]
    IN  /\ email # "" /\ password # ""
        /\ SelectUser(users, email) = None
        /\ users' = transaction(users, users \cup {new_user},
                                SQLALCHEMY_AVAILABLE /\ fault = "streak")
        /\ streaks' = transaction(streaks,
                                  signup_streak(streaks, user_id, now), FALSE)
        /\ response' = create_response(500, "error")
        /\ call' = [op |-> "signup_fault", user_id |-> user_id,
                    today |-> None, before |-> None, fault |-> fault]
        /\ UNCHANGED <<SQLALCHEMY_AVAILABLE, pc, req, base>>

\* the user ids that clients ask the streak of
UserIds == 1..(Cardinality(SeedUsers) + 1)

\* variant: a missing row is created with the default values
get_streak_rows_create(rows, user_id, now) ==
    IF SelectStreak(rows, user_id) = None
    THEN signup_streak(rows, user_id, now)
    ELSE rows

\* table streaks after get_streak_endpoint: it executes a SELECT only
get_streak_rows(rows, user_id, now) == rows

\* streak_data of get_streak_endpoint
get_streak_data(rows, user_id, now) ==
    LET streak == SelectStreak(rows, user_id)
    IN  IF streak # None
        THEN [current_streak |-> streak.current_streak,
              longest_streak |-> streak.longest_streak,
              last_activity |-> IF SQLALCHEMY_AVAILABLE
                                THEN isoformat(streak.last_activity)
                                ELSE streak.last_activity]
        ELSE [current_streak |-> 0,
              longest_streak |-> 0,
              last_activity |-> isoformat(now)]

\* GET /api/streak/<user_id>
GetStreak(user_id, now) ==
    /\ streaks' = get_streak_rows(streaks, user_id, now)
    /\ response' = [status |-> 200, success |-> TRUE, message |-> "",
                    data |-> get_streak_data(streaks, user_id, now)]
    /\ call' = [op |-> "get_streak", user_id |-> user_id, today |-> None,
                before |-> SelectStreak(streaks, user_id)]
    /\ UNCHANGED <<SQLALCHEMY_AVAILABLE, users, pc, req, base>>

\* ------------------------------------------------------------------------
\* /api/progress
\* ------------------------------------------------------------------------
\* table progress holds at most MaxProgress rows
MaxProgress == 3

\* the values the modelled clients save; user_id 0 stands for a missing one
ProgressUserIds == {0, 1}
Subjects == {"Mathematics"}
Chapters == {"Chapter 1", "Algebra"}
Scores == {0, 80}

\* the INSERT of update_progress; sqlite3 stores completed as 1 or 0
insert_progress(rows, user_id, subject, chapter, score, completed) ==
    rows \cup { [id |-> NextId(rows), user_id |-> user_id,
                 subject |-> subject, chapter |-> chapter, score |-> score,
                 completed |-> IF SQLALCHEMY_AVAILABLE THEN completed
                               ELSE IF completed THEN 1 ELSE 0] }

\* POST /api/progress
SaveProgress(user_id, subject, chapter, score, completed) ==
    /\ Cardinality(progress) < MaxProgress
    /\ IF user_id = 0
       THEN /\ response' = create_response(400, "User ID is required")
            /\ UNCHANGED progress
       ELSE /\ progress' = insert_progress(progress, user_id, subject,
                                           chapter, score, completed)
            /\ response' = create_response(200, "Progress saved successfully")
    /\ call' = [NoCall EXCEPT !.op = "progress", !.user_id = user_id]
    /\ UNCHANGED <<SQLALCHEMY_AVAILABLE, users, streaks, pc, req, base,
                   peak, active>>

\* ------------------------------------------------------------------------
\* Two login requests served concurrently (one thread per request)
\* ------------------------------------------------------------------------
NoReq == [user_id |-> 0, streak |-> None, today |-> None]

\* a signup served while no login is in flight
ConcSignup(email, password, now) ==
    /\ \A p \in Procs : pc[p] = "idle"
    /\ Signup(email, password, now)

\* thread p: login() up to and including the query of the streak row and
\* the reading of utcnow() in update_streak / update_streak_sqlite
LoginFetch(p, email, password, now) ==
    LET user == SelectUser(users, email)
    IN  /\ pc[p] = "idle"
        /\ email # "" /\ password # ""
        /\ user # None
        /\ check_password_hash(user.password, password)
        /\ req' = [req EXCEPT ![p] = [user_id |-> user.id,
                                      streak |-> SelectStreak(streaks, user.id),
                                      today |-> now]]
        /\ pc' = [pc EXCEPT ![p] = "fetched"]
        /\ base' = IF \A q \in Procs : pc[q] = "idle" THEN streaks ELSE base
        /\ UNCHANGED <<SQLALCHEMY_AVAILABLE, users, streaks, response, call>>

\* thread p: the rest of the streak update (compute, UPDATE or INSERT,
\* commit) from the row fetched earlier, and the response
LoginStore(p) ==
    /\ pc[p] = "fetched"
    /\ streaks' = IF SQLALCHEMY_AVAILABLE
                  THEN alchemy_write(streaks, req[p].streak, req[p].user_id, req[p].today)
                  ELSE sqlite_write(streaks, req[p].streak, req[p].user_id, req[p].today)
    /\ response' = create_response(200, "Login successful")
    /\ pc' = [pc EXCEPT ![p] = "done"]
    /\ UNCHANGED <<SQLALCHEMY_AVAILABLE, users, call, req, base>>

\* the value of f at x, or 0 where f has none
Lookup(f, x) == IF x \in DOMAIN f THEN f[x] ELSE 0

\* record, for every streak row, the largest current_streak it has held
TrackPeak ==
    peak' = [u \in {r.user_id : r \in streaks'} |->
                Max(Lookup(peak, u), SelectStreak(streaks', u).current_streak)]

Init ==
    /\ SQLALCHEMY_AVAILABLE \in BOOLEAN
    /\ users = SeedUsers
    /\ streaks = {}
    /\ response = create_response(0, "")
    /\ call = NoCall
    /\ pc = [p \in Procs |-> "idle"]
    /\ req = [p \in Procs |-> NoReq]
    /\ base = {}
    /\ peak = [u \in {} |-> 0]
    /\ active = [u \in {} |-> {}]
    /\ progress = {}

Next ==
    \/ \E email \in Emails, password \in SignupPasswords, now \in Datetimes :
          /\ Signup(email, password, now)
          /\ TrackPeak
          /\ UNCHANGED <<active, progress>>
    \/ \E email \in Emails, password \in Passwords, now \in Datetimes :
          /\ Login(email, password, now)
          /\ TrackPeak
          /\ UNCHANGED <<active, progress>>

\* requests served one at a time
Spec == Init /\ [][Next]_vars

NextConc ==
    \/ \E email \in Emails, password \in SignupPasswords, now \in Datetimes :
          /\ ConcSignup(email, password, now)
          /\ UNCHANGED <<peak, active, progress>>
    \/ \E p \in Procs, email \in Emails, password \in Passwords, now \in Datetimes :
          /\ LoginFetch(p, email, password, now)
          /\ UNCHANGED <<peak, active, progress>>
    \/ \E p \in Procs :
          /\ LoginStore(p)
          /\ UNCHANGED <<peak, active, progress>>

\* signups followed by two login requests whose steps interleave
SpecConc == Init /\ [][NextConc]_vars

\* ------------------------------------------------------------------------
\* Requests served one at a time by a clock that does not go back
\* ------------------------------------------------------------------------
\* the days on which a user signed up or logged in
ActiveDays(user_id) == IF user_id \in DOMAIN active THEN active[user_id] ELSE {}

\* a successful signup or login is an activity of its user on the day of
\* now; the request is taken only if none of the user's activities is later
TrackActive ==
    IF response'.status = 200
    THEN LET u == call'.user_id
             d == date(call'.today)
         IN  /\ \A e \in ActiveDays(u) : e <= d
             /\ active' = [v \in DOMAIN active \cup {u} |->
                              IF v = u THEN ActiveDays(u) \cup {d}
                              ELSE active[v]]
    ELSE UNCHANGED active

NextHist ==
    \/ \E email \in Emails, password \in SignupPasswords, now \in Datetimes :
          /\ Signup(email, password, now)
          /\ TrackActive
          /\ TrackPeak
          /\ UNCHANGED progress
    \/ \E email \in Emails, password \in Passwords, now \in Datetimes :
          /\ Login(email, password, now)
          /\ TrackActive
          /\ TrackPeak
          /\ UNCHANGED progress

SpecHist == Init /\ [][NextHist]_vars

\* the clock values of the requests in the model of failures: the first
\* two days are enough for a same-day, a next-day and an earlier update
OpsTimes == { dt \in Datetimes : dt.date <= 2 }

\* requests served one at a time, some of which meet a persistence failure
NextOps ==
    \/ \E email \in Emails, password \in SignupPasswords, now \in OpsTimes :
          /\ Signup(email, password, now)
          /\ UNCHANGED <<peak, active, progress>>
    \/ \E email \in Emails, password \in Passwords, now \in OpsTimes :
          /\ Login(email, password, now)
          /\ UNCHANGED <<peak, active, progress>>
    \/ \E email \in Emails, password \in SignupPasswords, now \in OpsTimes,
           fault \in SignupFaults :
          /\ SignupFault(email, password, now, fault)
          /\ UNCHANGED <<peak, active, progress>>
    \/ \E email \in Emails, password \in Passwords, now \in OpsTimes,
           fault \in Faults :
          /\ LoginFault(email, password, now, fault)
          /\ UNCHANGED <<peak, active, progress>>
    \/ \E user_id \in UserIds, now \in OpsTimes :
          /\ GetStreak(user_id, now)
          /\ UNCHANGED <<peak, active, progress>>

SpecOps == Init /\ [][NextOps]_vars

\* progress saves only
NextProgress ==
    \E user_id \in ProgressUserIds, subject \in Subjects, chapter \in Chapters,
       score \in Scores, completed \in BOOLEAN :
          SaveProgress(user_id, subject, chapter, score, completed)

SpecProgress == Init /\ [][NextProgress]_vars

\* ------------------------------------------------------------------------
\* Properties
\* ------------------------------------------------------------------------
\* the last request was a login that reached the streak update
Updated == call.op = "login" /\ response.status = 200

\* the streak row of the last request's user, now
After == SelectStreak(streaks, call.user_id)

\* days_diff of the last request
DaysDiff == date(call.today) - RowDate(call.before)

\* C1: every stored streak row has longest_streak >= current_streak, after
\* signup and after every streak update, whatever the sequence of dates
C1_LongestAtLeastCurrent ==
    \A r \in streaks : r.longest_streak >= r.current_streak

C1_Witness ==
    /\ Updated /\ call.before # None /\ DaysDiff > 1
    /\ After.longest_streak > After.current_streak

\* C2: a successful login of a user without streak row leaves a row with
\* current_streak 1, longest_streak 1 and last_activity on today's date,
\* in both backends
C2_Claim ==
    (Updated /\ call.before = None) =>
        /\ After # None
        /\ After.current_streak = 1
        /\ After.longest_streak = 1
        /\ RowDate(After) = date(call.today)

\* C3: after a successful signup the new user's row has current_streak 1,
\* longest_streak 1 and last_activity on the signup date
C3_Claim ==
    (call.op = "signup" /\ response.status = 200) =>
        /\ After # None
        /\ After.current_streak = 1
        /\ After.longest_streak = 1
        /\ RowDate(After) = date(call.today)

\* C4: a streak row that the streak update has updated has
\* current_streak >= 1
C4_Claim ==
    (Updated /\ After # None) => After.current_streak >= 1

\* C5: an update on the calendar date of last_activity leaves
\* current_streak and longest_streak as they were
C5_SameDayIdempotent ==
    (Updated /\ call.before # None /\ DaysDiff = 0) =>
        /\ After.current_streak = call.before.current_streak
        /\ After.longest_streak = call.before.longest_streak

C5_Witness ==
    /\ Updated /\ call.before # None /\ DaysDiff = 0
    /\ call.before.current_streak >= 1
    /\ After.current_streak = call.before.current_streak
    /\ After.last_activity # call.before.last_activity

\* C6: an update on the day after last_activity, whatever the times of
\* day, adds exactly 1 to current_streak and sets longest_streak to the
\* maximum of its old value and the new current_streak
C6_NextDayIncrements ==
    (Updated /\ call.before # None /\ DaysDiff = 1) =>
        /\ After.current_streak = call.before.current_streak + 1
        /\ After.longest_streak =
              Max(call.before.longest_streak, call.before.current_streak + 1)

C6_Witness ==
    /\ Updated /\ call.before # None /\ DaysDiff = 1
    /\ call.today.time = "08:00:00"
    /\ After.current_streak = 2
    /\ call.before.longest_streak = 2

\* C7: an update more than one day after last_activity resets
\* current_streak to 1 and leaves longest_streak at its prior value
C7_Claim ==
    (Updated /\ call.before # None /\ DaysDiff > 1) =>
        /\ After.current_streak = 1
        /\ After.longest_streak = call.before.longest_streak

\* C8: an update dated before last_activity leaves current_streak and
\* longest_streak unchanged
C8_EarlierDateKeepsCounters ==
    (Updated /\ call.before # None /\ DaysDiff < 0) =>
        /\ After.current_streak = call.before.current_streak
        /\ After.longest_streak = call.before.longest_streak

C8_Witness ==
    /\ Updated /\ call.before # None /\ DaysDiff < 0
    /\ call.before.current_streak = 2
    /\ After.current_streak = 2

\* C9: the date of last_activity never moves backwards: an update dated
\* on or before last_activity leaves it unchanged
C9_Claim ==
    (Updated /\ call.before # None) =>
        /\ RowDate(After) >= RowDate(call.before)
        /\ DaysDiff <= 0 => RowDate(After) = RowDate(call.before)

\* C10: two concurrent updates of one user leave the row that running
\* them one after the other, in one of the two orders, leaves
SerialRow(first, second) ==
    LET update(rows, r) == IF SQLALCHEMY_AVAILABLE
                           THEN update_streak(rows, r.user_id, r.today)
                           ELSE update_streak_sqlite(rows, r.user_id, r.today)
    IN  SelectStreak(update(update(base, first), second), first.user_id)

C10_Claim ==
    (/\ \A p \in Procs : pc[p] = "done"
     /\ req[1].user_id = req[2].user_id) =>
        SelectStreak(streaks, req[1].user_id)
            \in {SerialRow(req[1], req[2]), SerialRow(req[2], req[1])}

\* C12: each row's longest_streak is the largest value its current_streak
\* has held since the row was created
C12_LongestIsPeak ==
    \A r \in streaks : r.longest_streak = Lookup(peak, r.user_id)

C12_Witness ==
    /\ Updated /\ call.before # None
    /\ After.current_streak = 1
    /\ After.longest_streak = 2
    /\ Lookup(peak, call.user_id) = 2

\* the number of consecutive days of S that end at day d
RunLength(S, d) ==
    Cardinality({ k \in 0..MaxDay : \A j \in 0..k : (d - j) \in S })

\* C11: with dates that do not go back, current_streak is the number of
\* consecutive calendar days, ending at the date of last_activity, on
\* which the user signed up or logged in
C11_Claim ==
    \A r \in streaks :
        r.current_streak = RunLength(ActiveDays(r.user_id), RowDate(r))

\* C13: a streak update in which a query, a write or the commit fails
\* leaves table streaks exactly as it was: nothing partially applied, no
\* row created
C13_FailureKeepsStore ==
    [][call'.op = "login_fault" => streaks' = streaks]_vars

C13_Witness ==
    /\ call.op = "login_fault" /\ call.fault = "commit"
    /\ call.before # None
    /\ After = call.before

C15_GetStreakReadOnly ==
    [][call'.op = "get_streak" =>
          /\ streaks' = streaks
          /\ SelectStreak(streaks, call'.user_id) = None =>
                /\ response'.data.current_streak = 0
                /\ response'.data.longest_streak = 0]_vars

C15_Witness ==
    /\ call.op = "get_streak" /\ call.before = None
    /\ response.data.current_streak = 0
    /\ response.data.longest_streak = 0
    /\ After = None

\* C19: a signup that answers an error leaves no new users row and no new
\* streaks row; one that answers success leaves the new user and exactly
\* one streaks row for it
C19_Claim ==
    [][call'.op \in {"signup", "signup_fault"} =>
          IF response'.status = 200
          THEN \E u \in users' \ users :
                  Cardinality({r \in streaks' : r.user_id = u.id}) = 1
          ELSE users' = users /\ streaks' = streaks]_vars

\* C16: no two streak rows have the same user_id, whatever the order and
\* interleaving of signups and logins
C16_OneRowPerUser ==
    \A r, q \in streaks : r.user_id = q.user_id => r = q

C16_Witness ==
    /\ \A p \in Procs : pc[p] = "done" /\ req[p].streak = None
    /\ req[1].user_id = req[2].user_id
    /\ Cardinality({r \in streaks : r.user_id = req[1].user_id}) = 1

\* C17: table progress has at most one row per (user_id, subject,
\* chapter); a second save of a key replaces the row
C17_Claim ==
    \A r, q \in progress :
        (r.user_id = q.user_id /\ r.subject = q.subject /\ r.chapter = q.chapter)
            => r = q

\* table streaks as each backend stores it
AlchemyRows(rows) ==
    IF SQLALCHEMY_AVAILABLE THEN rows
    ELSE { [r EXCEPT !.last_activity = fromisoformat(@)] : r \in rows }

SqliteRows(rows) ==
    IF SQLALCHEMY_AVAILABLE
    THEN { [r EXCEPT !.last_activity = isoformat(@)] : r \in rows }
    ELSE rows

\* the counters and the date of last_activity of the rows of a table
AlchemyStored(rows) ==
    { [user_id |-> r.user_id, current_streak |-> r.current_streak,
       longest_streak |-> r.longest_streak,
       last_activity |-> date(r.last_activity)] : r \in rows }

SqliteStored(rows) ==
    { [user_id |-> r.user_id, current_streak |-> r.current_streak,
       longest_streak |-> r.longest_streak,
       last_activity |-> date(fromisoformat(r.last_activity))] : r \in rows }

\* C18: from every stored state and for every now, update_streak and
\* update_streak_sqlite leave the same counters and last_activity date
C18_Claim ==
    \A u \in users, now \in Datetimes :
        AlchemyStored(update_streak(AlchemyRows(streaks), u.id, now))
            = SqliteStored(update_streak_sqlite(SqliteRows(streaks), u.id, now))
====
